---- MODULE Spec2Model ----
(***************************************************************************)
(* Model of the training-metrics dashboard, src/plots/code.js.             *)
(*                                                                         *)
(* The page fetches data.json (a list of per-log-file runs and a summary), *)
(* merges the runs that share a run_name (mergeContinuationLogs), fills    *)
(* the run selector, and builds chart series, a run summary and a config   *)
(* table from the current selection.  User events on the selector and on   *)
(* the three metric checkboxes recompute them.                             *)
(*                                                                         *)
(* JavaScript numbers that the code divides, multiplies or tests with      *)
(* isFinite are modelled as exact rationals plus Infinity, -Infinity and   *)
(* NaN (rounding of the binary representation is not modelled).            *)
(***************************************************************************)
EXTENDS Integers, Sequences, FiniteSets, TLC

VARIABLES
    pc,            \* position of loadData: "start", "fetching", "parsing", "ready", "error"
    listening,     \* setupEventListeners has registered the change handlers
    trainingData,  \* the global trainingData: Null or [runs, summary]
    input,         \* history: the runs of the parsed response, as fetched
    mergeCalls,    \* history: how mergeContinuationLogs ended: "none", "returned", "threw"
    runSelect,     \* the #runSelect element: [options, value]
    charts,        \* the global charts: chart name -> <<>> (absent) or <<data>>
    runSummary,    \* innerHTML of #runSummary, as the list of its run cards
    configDetails, \* innerHTML of #configDetails, as the list of its items
    earlyChange    \* history: change handlers run while trainingData was null:
                   \* "none", "skipped" (none read it), "threw" (one read trainingData.runs)

vars == <<pc, listening, trainingData, input, mergeCalls, runSelect, charts,
          runSummary, configDetails, earlyChange>>

(***************************************************************************)
(* Bounds of the model.                                                    *)
(***************************************************************************)
MaxFiles == 2      \* per-file runs in a document whose sample steps vary
MaxSamples == 3    \* samples of one kind in such a document, over all its files
MaxNamed == 3      \* per-file runs in a document whose names or configs vary
MaxLen == 2        \* samples in a list whose values vary

(***************************************************************************)
(* JavaScript numbers.                                                     *)
(***************************************************************************)
Abs(n) == IF n < 0 THEN -n ELSE n

RECURSIVE Gcd(_, _)
Gcd(a, b) == IF b = 0 THEN a ELSE Gcd(b, a % b)

\* the rational n/d, d # 0, in lowest terms with a positive denominator
Rat(n, d) ==
    LET g == Gcd(Abs(n), Abs(d))
        s == IF d < 0 THEN -1 ELSE 1
    IN  [kind |-> "finite", n |-> (s * n) \div g, d |-> Abs(d) \div g]

Fin(n) == [kind |-> "finite", n |-> n, d |-> 1]
Infinity == [kind |-> "Infinity"]
NegInfinity == [kind |-> "-Infinity"]
NaN == [kind |-> "NaN"]

isFinite(x) == x.kind = "finite"

Sign(x) ==
    CASE x.kind = "Infinity" -> 1
      [] x.kind = "-Infinity" -> -1
      [] x.kind = "finite" -> IF x.n > 0 THEN 1 ELSE IF x.n < 0 THEN -1 ELSE 0
      [] OTHER -> 0

Signed(s) == IF s > 0 THEN Infinity ELSE NegInfinity

\* a / b
JsDiv(a, b) ==
    IF a.kind = "NaN" \/ b.kind = "NaN" THEN NaN
    ELSE IF ~isFinite(a) /\ ~isFinite(b) THEN NaN
    ELSE IF ~isFinite(a) THEN Signed(Sign(a) * (IF Sign(b) < 0 THEN -1 ELSE 1))
    ELSE IF ~isFinite(b) THEN Fin(0)
    ELSE IF b.n = 0 THEN (IF a.n = 0 THEN NaN ELSE Signed(Sign(a)))
    ELSE Rat(a.n * b.d, a.d * b.n)

\* a * b
JsMul(a, b) ==
    IF a.kind = "NaN" \/ b.kind = "NaN" THEN NaN
    ELSE IF isFinite(a) /\ isFinite(b) THEN Rat(a.n * b.n, a.d * b.d)
    ELSE IF Sign(a) = 0 \/ Sign(b) = 0 THEN NaN
    ELSE Signed(Sign(a) * Sign(b))

\* a < b for numbers that are not NaN
JsLess(a, b) ==
    IF a.kind = "-Infinity" THEN b.kind # "-Infinity"
    ELSE IF a.kind = "Infinity" THEN FALSE
    ELSE IF b.kind = "Infinity" THEN TRUE
    ELSE IF b.kind = "-Infinity" THEN FALSE
    ELSE a.n * b.d < b.n * a.d

\* Math.max(...xs): -Infinity for no argument, NaN when an argument is NaN
RECURSIVE MathMax(_)
MathMax(xs) ==
    IF xs = <<>> THEN NegInfinity
    ELSE LET m == MathMax(Tail(xs))
             x == Head(xs)
         IN  IF x.kind = "NaN" \/ m.kind = "NaN" THEN NaN
             ELSE IF JsLess(x, m) THEN m ELSE x

RECURSIVE Pow10(_)
Pow10(k) == IF k = 0 THEN 1 ELSE 10 * Pow10(k - 1)

RECURSIVE Exponent(_)
Exponent(n) == IF n < 10 THEN 0 ELSE 1 + Exponent(n \div 10)

\* x.toExponential(2) for an integer-valued x: the three significant digits
\* (half rounds up) and the decimal exponent, "d.dde+x"
toExponential2(x) ==
    LET a == Abs(x.n)
        e == Exponent(a)
        m == IF e <= 2 THEN a * Pow10(2 - e)
             ELSE (a + 5 * Pow10(e - 3)) \div Pow10(e - 2)
    IN  IF m >= 1000
        THEN [negative |-> x.n < 0, digits |-> m \div 10, exponent |-> e + 1]
        ELSE [negative |-> x.n < 0, digits |-> m, exponent |-> e]

\* x.toFixed(4) for an integer-valued x: "n.0000"
toFixed4(x) == [negative |-> x.n < 0, int |-> Abs(x.n), frac |-> <<0, 0, 0, 0>>]

(***************************************************************************)
(* mergeContinuationLogs.                                                  *)
(***************************************************************************)
\* property names every object literal inherits from Object.prototype: for such
\* a key k, ({})[k] is a truthy value that has no push method
ObjectPrototypeKeys ==
    {"constructor", "toString", "valueOf", "hasOwnProperty", "__proto__"}

\* keys that are canonical array indices, with their numeric values
IntegerKeys == {"2", "10"}
KeyValue(k) == CASE k = "2" -> 2 [] k = "10" -> 10

\* position of key k in the groups, 0 when it has none
KeyIndex(groups, k) ==
    IF \E i \in 1..Len(groups) : groups[i].key = k
    THEN CHOOSE i \in 1..Len(groups) : groups[i].key = k
    ELSE 0

\* one iteration of the grouping loop
AddRun(groups, run) ==
    LET i == KeyIndex(groups, run.run_name)
    IN  IF i = 0
        THEN Append(groups, [key |-> run.run_name, runs |-> <<run>>])
        ELSE [groups EXCEPT ![i].runs = Append(@, run)]

\* runGroups after the grouping loop, its keys in insertion order
RECURSIVE GroupRuns(_, _)
GroupRuns(runs, groups) ==
    IF runs = <<>> THEN groups
    ELSE GroupRuns(Tail(runs), AddRun(groups, Head(runs)))

\* the grouping loop throws a TypeError at the first run whose name is an
\* inherited property of runGroups
GroupingThrows(runs) ==
    \E i \in 1..Len(runs) : runs[i].run_name \in ObjectPrototypeKeys

\* the groups whose key is an array index, in ascending numeric order
RECURSIVE IntegerEntries(_, _)
IntegerEntries(groups, S) ==
    IF S = {} THEN <<>>
    ELSE LET i == CHOOSE j \in S :
                    \A k \in S : KeyValue(groups[j].key) <= KeyValue(groups[k].key)
         IN  <<groups[i]>> \o IntegerEntries(groups, S \ {i})

\* an enumeration that lists the string keys newest first
ObjectEntriesNewestFirst(groups) ==
    LET strings == SelectSeq(groups, LAMBDA g : g.key \notin IntegerKeys)
    IN  IntegerEntries(groups, {i \in 1..Len(groups) : groups[i].key \in IntegerKeys})
            \o [i \in 1..Len(strings) |-> strings[Len(strings) + 1 - i]]

\* Object.entries(runGroups): integer keys ascending, then the string keys in
\* insertion order
ObjectEntries(groups) ==
    IntegerEntries(groups, {i \in 1..Len(groups) : groups[i].key \in IntegerKeys})
        \o SelectSeq(groups, LAMBDA g : g.key \notin IntegerKeys)

\* the loop "runs.forEach(run => merged.training_metrics.push(...))"
RECURSIVE PushTrainingMetrics(_)
PushTrainingMetrics(runs) ==
    IF runs = <<>> THEN <<>>
    ELSE Head(runs).training_metrics \o PushTrainingMetrics(Tail(runs))

RECURSIVE PushEvaluationResults(_)
PushEvaluationResults(runs) ==
    IF runs = <<>> THEN <<>>
    ELSE Head(runs).evaluation_results \o PushEvaluationResults(Tail(runs))

\* x put behind the last element of the sorted s whose step is not greater
RECURSIVE InsertByStep(_, _)
InsertByStep(s, x) ==
    IF s = <<>> THEN <<x>>
    ELSE IF x.step - Head(s).step < 0 THEN <<x>> \o s
    ELSE <<Head(s)>> \o InsertByStep(Tail(s), x)

RECURSIVE SortFrom(_, _)
SortFrom(s, acc) ==
    IF s = <<>> THEN acc ELSE SortFrom(Tail(s), InsertByStep(acc, Head(s)))

\* no sort at all: the concatenation as it is
SortByStepOmitted(s) == s

\* array.sort((a, b) => a.step - b.step): Array.prototype.sort is stable
SortByStep(s) == SortFrom(s, <<>>)

\* the elements of s at the positions in S, in order
RECURSIVE Pick(_, _, _)
Pick(s, S, i) ==
    IF i > Len(s) THEN <<>>
    ELSE (IF i \in S THEN <<s[i]>> ELSE <<>>) \o Pick(s, S, i + 1)

\* a filter that keeps the last sample of each step instead of the first
DedupByStepKeepingLast(s) ==
    Pick(s, {i \in 1..Len(s) : i = Len(s) \/ s[i].step # s[i + 1].step}, 1)

\* array.filter((m, index, self) => index === 0 || m.step !== self[index - 1].step)
DedupByStep(s) ==
    Pick(s, {i \in 1..Len(s) : i = 1 \/ s[i].step # s[i - 1].step}, 1)

\* a config of data.json: no config at all (null or missing), or a mapping
NoConfig == [defined |-> FALSE, entries |-> <<>>]
EmptyConfig == [defined |-> TRUE, entries |-> <<>>]

\* runs[0].config || {}: an object, also an empty one, is truthy
ConfigOrEmpty(runs) == IF runs[1].config.defined THEN runs[1].config ELSE EmptyConfig

\* the run built for a group of more than one per-file run
MergedRun(baseName, runs) ==
    [run_name |-> baseName,
     log_files |-> [i \in 1..Len(runs) |-> runs[i].log_file],
     training_metrics |-> DedupByStep(SortByStep(PushTrainingMetrics(runs))),
     evaluation_results |-> DedupByStep(SortByStep(PushEvaluationResults(runs))),
     config |-> ConfigOrEmpty(runs)]

\* the loop over Object.entries(runGroups)
MergedRuns(entries) ==
    [i \in 1..Len(entries) |->
        IF Len(entries[i].runs) = 1
        THEN entries[i].runs[1]
        ELSE MergedRun(entries[i].key, entries[i].runs)]

\* mergeContinuationLogs() on trainingData td: whether it threw, and trainingData after
mergeContinuationLogs(td) ==
    IF GroupingThrows(td.runs)
    THEN [threw |-> TRUE, data |-> td]
    ELSE [threw |-> FALSE,
          data |-> [td EXCEPT !.runs = MergedRuns(ObjectEntries(GroupRuns(td.runs, <<>>)))]]

(***************************************************************************)
(* The run selector and the query functions.                               *)
(***************************************************************************)
\* the values of the options of #runSelect: 'all', or the index of a run
AllRuns == [kind |-> "all"]
RunOption(index) == [kind |-> "index", index |-> index]

colors ==
    <<"#667eea", "#764ba2", "#f093fb", "#f5576c", "#4facfe", "#00f2fe",
      "#43e97b", "#38f9d7", "#fa7093", "#fee140", "#a8edea", "#fed6e3">>

\* selectedRun === 'all' ? trainingData.runs : [trainingData.runs[selectedRun]]
SelectedRuns(td, value) ==
    IF value.kind = "all" THEN td.runs ELSE <<td.runs[value.index + 1]>>

\* the options populateRunSelector leaves in the selector
populateRunSelector(td) ==
    <<AllRuns>> \o [i \in 1..Len(td.runs) |-> RunOption(i - 1)]

LossPoints(run) ==
    [i \in 1..Len(run.training_metrics) |->
        [x |-> run.training_metrics[i].step, y |-> run.training_metrics[i].loss]]

\* the learning-rate series built from the loss field
LRPointsFromLoss(run) ==
    [i \in 1..Len(run.training_metrics) |->
        [x |-> run.training_metrics[i].step, y |-> run.training_metrics[i].loss]]

LRPoints(run) ==
    [i \in 1..Len(run.training_metrics) |->
        [x |-> run.training_metrics[i].step, y |-> run.training_metrics[i].learning_rate]]

EvalPoints(run) ==
    [i \in 1..Len(run.evaluation_results) |->
        [x |-> run.evaluation_results[i].step, y |-> run.evaluation_results[i].paloma]]

\* the datasets one run adds to a chart of one metric type
RunDatasets(run, runIndex, metricType) ==
    LET color == colors[(runIndex % Len(colors)) + 1]
    IN  CASE metricType = "loss" ->
               IF Len(run.training_metrics) > 0
               THEN <<[label |-> <<run.run_name>>, data |-> LossPoints(run),
                       borderColor |-> <<color>>]>>
               ELSE <<>>
          [] metricType = "lr" ->
               IF Len(run.training_metrics) > 0
               THEN <<[label |-> <<run.run_name>>, data |-> LRPoints(run),
                       borderColor |-> <<color>>]>>
               ELSE <<>>
          [] metricType = "eval" ->
               IF Len(run.evaluation_results) > 0
               THEN <<[label |-> <<run.run_name>>, data |-> EvalPoints(run),
                       borderColor |-> <<color>>]>>
               ELSE <<>>
          [] OTHER -> <<>>

RECURSIVE ChartDatasets(_, _, _)
ChartDatasets(runs, runIndex, metricType) ==
    IF runIndex >= Len(runs) THEN <<>>
    ELSE RunDatasets(runs[runIndex + 1], runIndex, metricType)
            \o ChartDatasets(runs, runIndex + 1, metricType)

\* getChartData(metricType), with the selector at value
getChartData(td, value, metricType) ==
    [datasets |-> ChartDatasets(SelectedRuns(td, value), 0, metricType)]

LearningRates(run) ==
    [i \in 1..Len(run.training_metrics) |-> run.training_metrics[i].learning_rate]

Losses(run) ==
    [i \in 1..Len(run.training_metrics) |-> run.training_metrics[i].loss]

\* maxLoss / maxLR
ScaleFactor(run) == JsDiv(MathMax(Losses(run)), MathMax(LearningRates(run)))

ScaledLRPoints(run) ==
    [i \in 1..Len(run.training_metrics) |->
        [x |-> run.training_metrics[i].step,
         y |-> JsMul(run.training_metrics[i].learning_rate, ScaleFactor(run))]]

\* the datasets one run adds to the combined chart
CombinedRunDatasets(run, runIndex) ==
    LET color == colors[(runIndex % Len(colors)) + 1]
    IN  (IF Len(run.training_metrics) > 0
         THEN <<[label |-> <<run.run_name, " - Loss">>, data |-> LossPoints(run),
                 borderColor |-> <<color>>]>>
         ELSE <<>>)
        \o
        (IF Len(run.training_metrics) > 0
         THEN <<[label |-> <<run.run_name, " - LR (scaled)">>, data |-> ScaledLRPoints(run),
                 borderColor |-> <<color, "80">>]>>
         ELSE <<>>)

RECURSIVE CombinedDatasets(_, _)
CombinedDatasets(runs, runIndex) ==
    IF runIndex >= Len(runs) THEN <<>>
    ELSE CombinedRunDatasets(runs[runIndex + 1], runIndex)
            \o CombinedDatasets(runs, runIndex + 1)

\* getCombinedChartData(), with the selector at value
getCombinedChartData(td, value) ==
    [datasets |-> CombinedDatasets(SelectedRuns(td, value), 0)]

\* the global charts before createCharts
NoCharts == [loss |-> <<>>, lr |-> <<>>, eval |-> <<>>, combined |-> <<>>]

createCharts(td, value) ==
    [loss |-> <<getChartData(td, value, "loss")>>,
     lr |-> <<getChartData(td, value, "lr")>>,
     eval |-> <<getChartData(td, value, "eval")>>,
     combined |-> <<getCombinedChartData(td, value)>>]

\* updateCharts(): every chart that exists gets its data recomputed
updateCharts(ch, td, value) ==
    [loss |-> IF ch.loss # <<>> THEN <<getChartData(td, value, "loss")>> ELSE <<>>,
     lr |-> IF ch.lr # <<>> THEN <<getChartData(td, value, "lr")>> ELSE <<>>,
     eval |-> IF ch.eval # <<>> THEN <<getChartData(td, value, "eval")>> ELSE <<>>,
     combined |-> IF ch.combined # <<>> THEN <<getCombinedChartData(td, value)>> ELSE <<>>]

\* an updateCharts that recomputes every chart without testing that it exists
updateChartsUnguarded(ch) == TRUE

\* updateCharts() calls getChartData or getCombinedChartData, which read
\* trainingData.runs: only for a chart that exists
updateChartsReads(ch) ==
    \/ ch.loss # <<>>
    \/ ch.lr # <<>>
    \/ ch.eval # <<>>
    \/ ch.combined # <<>>

NotAvailable == [text |-> "N/A"]
\* the text of the infinity sign
InfinityMarker == [text |-> "infinity sign"]

\* a summary that renders a non-finite final score as missing
FinalPalomaNotAvailable(run) ==
    IF Len(run.evaluation_results) > 0
    THEN LET last == run.evaluation_results[Len(run.evaluation_results)]
         IN  IF isFinite(last.paloma) THEN toExponential2(last.paloma) ELSE NotAvailable
    ELSE NotAvailable

\* finalPaloma of updateRunSummary
FinalPaloma(run) ==
    IF Len(run.evaluation_results) > 0
    THEN LET last == run.evaluation_results[Len(run.evaluation_results)]
         IN  IF isFinite(last.paloma) THEN toExponential2(last.paloma) ELSE InfinityMarker
    ELSE NotAvailable

\* the card updateRunSummary renders for one run
RunCard(run) ==
    LET tm == run.training_metrics
        has == Len(tm) > 0
    IN  [run_name |-> run.run_name,
         logs |-> IF "log_files" \in DOMAIN run THEN run.log_files ELSE <<run.log_file>>,
         stepRange |-> IF has THEN [first |-> tm[1].step, last |-> tm[Len(tm)].step]
                       ELSE NotAvailable,
         trainingPoints |-> Len(tm),
         evalPoints |-> Len(run.evaluation_results),
         finalLoss |-> IF has THEN toFixed4(tm[Len(tm)].loss) ELSE NotAvailable,
         finalLR |-> IF has THEN toExponential2(tm[Len(tm)].learning_rate) ELSE NotAvailable,
         finalPaloma |-> FinalPaloma(run)]

\* updateRunSummary(), with the selector at value
updateRunSummary(td, value) ==
    LET runs == SelectedRuns(td, value)
    IN  [i \in 1..Len(runs) |-> RunCard(runs[i])]

\* the elements of s without repetition, in order of first occurrence
RECURSIVE Unique(_)
Unique(s) ==
    IF s = <<>> THEN <<>>
    ELSE LET u == Unique(SubSeq(s, 1, Len(s) - 1))
             x == s[Len(s)]
         IN  IF \E i \in 1..Len(u) : u[i] = x THEN u ELSE Append(u, x)

ConfigKeys(run) == [i \in 1..Len(run.config.entries) |-> run.config.entries[i][1]]

RECURSIVE AllConfigKeys(_)
AllConfigKeys(runs) ==
    IF runs = <<>> THEN <<>>
    ELSE ConfigKeys(Head(runs)) \o AllConfigKeys(Tail(runs))

\* run.config && run.config[key] !== undefined ? run.config[key] : 'N/A'
ConfigValue(run, key) ==
    LET e == run.config.entries
    IN  IF \E i \in 1..Len(e) : e[i][1] = key
        THEN [value |-> e[CHOOSE i \in 1..Len(e) : e[i][1] = key][2]]
        ELSE NotAvailable

\* key.replace(/_/g, ' ').toUpperCase()
ConfigLabel(key) ==
    CASE key = "d_model" -> "D MODEL"
      [] key = "n_layers" -> "N LAYERS"

\* updateConfigDetails(), with the selector at value
updateConfigDetails(td, value) ==
    LET runs == SelectedRuns(td, value)
        keys == Unique(AllConfigKeys(runs))
    IN  [k \in 1..Len(keys) |->
            [label |-> ConfigLabel(keys[k]),
             value |-> Unique([i \in 1..Len(runs) |-> ConfigValue(runs[i], keys[k])])]]

(***************************************************************************)
(* The documents data.json may hold.  Every run has both sample lists      *)
(* (possibly empty), as in the documented output format; the step lists of *)
(* a log file are in any order and may repeat a step.  A document is one   *)
(* of four kinds: its sample steps vary, its run names vary, its configs   *)
(* vary, or its sample values vary.                                        *)
(***************************************************************************)
Steps == {0, 500, 1000}
RunNames == {"a", "b", "2", "10", "constructor"}
PlainNames == {"a", "b"}

DModel96 == [defined |-> TRUE, entries |-> << <<"d_model", 96>> >>]
DModel128 == [defined |-> TRUE, entries |-> << <<"d_model", 128>>, <<"n_layers", 12>> >>]
Configs == {NoConfig, EmptyConfig, DModel96, DModel128}

\* the summary block of a document that lists runs
Summary(runs) ==
    [total_runs |-> Len(runs),
     run_names |-> [i \in 1..Len(runs) |-> runs[i].run_name]]

Document(runs) == [runs |-> runs, summary |-> Summary(runs)]

Reverse(s) == [i \in 1..Len(s) |-> s[Len(s) + 1 - i]]

\* the run of log file f: its samples carry the file and their position in it
TaggedRun(f, name, trainSteps, evalSteps, config) ==
    [run_name |-> name,
     log_file |-> f,
     training_metrics |->
        [i \in 1..Len(trainSteps) |->
            [step |-> trainSteps[i], loss |-> Fin(10 * f + i),
             learning_rate |-> Fin(1), inf_nan_count |-> 0]],
     evaluation_results |->
        [i \in 1..Len(evalSteps) |-> [step |-> evalSteps[i], paloma |-> Fin(10 * f + i)]],
     config |-> config]

\* the step lists of n files: the steps of all the files in a row, and the file
\* that owns each of them
StepRows == UNION {[1..k -> Steps] : k \in 0..MaxSamples}
Owners(row, n) ==
    {o \in [1..Len(row) -> 1..n] : \A i \in 1..(Len(row) - 1) : o[i] <= o[i + 1]}

\* the names of the runs of a document of n plain-named runs; the first is "a"
PlainNamings(n) == {nm \in [1..n -> PlainNames] : n = 0 \/ nm[1] = "a"}

\* a document whose sample steps vary: any steps in any order, repeated or not
SampleDocument(names, row, owner) ==
    Document([f \in 1..Len(names) |->
                 LET steps == Pick(row, {i \in 1..Len(row) : owner[i] = f}, 1)
                 IN  TaggedRun(f, names[f], steps, Reverse(steps), DModel96)])

FixedSteps(f) == <<500 * (f % 2), 1000>>

\* a document whose run names or configs vary
NamedDocument(names, configs) ==
    Document([f \in 1..Len(names) |->
                 TaggedRun(f, names[f], FixedSteps(f), <<1000>>, configs[f])])

LossValues == {Fin(1), Fin(3)}
LearningRateValues == {Fin(0), Fin(2)}
PalomaValues == {Fin(1235), Infinity}
TrainingValueLists == UNION {[1..k -> LossValues \X LearningRateValues] : k \in 0..MaxLen}
PalomaLists == UNION {[1..k -> PalomaValues] : k \in 0..MaxLen}

\* a run whose sample values vary, at steps 0, 500, 1000, ...
ValueRun(train, eval) ==
    [run_name |-> "a",
     log_file |-> 1,
     training_metrics |->
        [i \in 1..Len(train) |->
            [step |-> 500 * (i - 1), loss |-> train[i][1],
             learning_rate |-> train[i][2], inf_nan_count |-> 0]],
     evaluation_results |->
        [i \in 1..Len(eval) |-> [step |-> 500 * (i - 1), paloma |-> eval[i]]],
     config |-> DModel96]

SecondRun ==
    [run_name |-> "b",
     log_file |-> 2,
     training_metrics |->
        <<[step |-> 0, loss |-> Fin(2), learning_rate |-> Fin(1), inf_nan_count |-> 0]>>,
     evaluation_results |-> <<>>,
     config |-> DModel128]

\* a document whose sample values vary, of one run or of two
ValueDocument(train, eval, alone) ==
    IF alone THEN Document(<<ValueRun(train, eval)>>)
    ELSE Document(<<ValueRun(train, eval), SecondRun>>)

(***************************************************************************)
(* The page.                                                               *)
(***************************************************************************)
Null == [null |-> TRUE]

\* the options of #runSelect in the page shell: the one populateRunSelector
\* restores before it appends the runs
InitialOptions == <<AllRuns>>

Init ==
    /\ pc = "start"
    /\ listening = FALSE
    /\ trainingData = Null
    /\ input = <<>>
    /\ mergeCalls = "none"
    /\ runSelect = [options |-> InitialOptions, value |-> AllRuns]
    /\ charts = NoCharts
    /\ runSummary = <<>>
    /\ configDetails = <<>>
    /\ earlyChange = "none"

\* the DOMContentLoaded handler: loadData() runs up to its first await, then
\* setupEventListeners()
DOMContentLoaded ==
    /\ pc = "start"
    /\ pc' = "fetching"
    /\ listening' = TRUE
    /\ UNCHANGED <<trainingData, input, mergeCalls, runSelect, charts, runSummary,
                   configDetails, earlyChange>>

\* fetch('data.json') resolves: loadData awaits response.json()
FetchResolved ==
    /\ pc = "fetching"
    /\ pc' = "parsing"
    /\ UNCHANGED <<listening, trainingData, input, mergeCalls, runSelect, charts,
                   runSummary, configDetails, earlyChange>>

\* fetch or response.json() rejects: the catch block replaces the page body
LoadRejected ==
    /\ pc \in {"fetching", "parsing"}
    /\ pc' = "error"
    /\ UNCHANGED <<listening, trainingData, input, mergeCalls, runSelect, charts,
                   runSummary, configDetails, earlyChange>>

\* a loadData that fills the selector, the charts and the cards before the merge
JsonResolvedBuildingFirst(doc) ==
    /\ pc = "parsing"
    /\ input' = doc.runs
    /\ LET merge == mergeContinuationLogs(doc)
       IN  /\ trainingData' = merge.data
           /\ mergeCalls' = IF merge.threw THEN "threw" ELSE "returned"
    /\ IF mergeCalls' = "threw"
       THEN /\ pc' = "error"
            /\ UNCHANGED <<runSelect, charts, runSummary, configDetails>>
       ELSE /\ pc' = "ready"
            /\ runSelect' = [options |-> populateRunSelector(doc), value |-> AllRuns]
            /\ charts' = createCharts(doc, AllRuns)
            /\ runSummary' = updateRunSummary(trainingData', AllRuns)
            /\ configDetails' = updateConfigDetails(trainingData', AllRuns)
    /\ UNCHANGED <<listening, earlyChange>>

\* response.json() resolves with doc: the rest of loadData runs to its end
JsonResolved(doc) ==
    /\ pc = "parsing"
    /\ input' = doc.runs
    /\ LET merge == mergeContinuationLogs(doc)
       IN  /\ trainingData' = merge.data
           /\ mergeCalls' = IF merge.threw THEN "threw" ELSE "returned"
    /\ IF mergeCalls' = "threw"
       THEN /\ pc' = "error"
            /\ UNCHANGED <<runSelect, charts, runSummary, configDetails>>
       ELSE /\ pc' = "ready"
            /\ runSelect' = [options |-> populateRunSelector(trainingData'),
                             value |-> AllRuns]
            /\ charts' = createCharts(trainingData', AllRuns)
            /\ runSummary' = updateRunSummary(trainingData', AllRuns)
            /\ configDetails' = updateConfigDetails(trainingData', AllRuns)
    /\ UNCHANGED <<listening, earlyChange>>

\* a change handler whose queries reverse the sample lists in place
RunSelectChangeReversing(value) ==
    /\ listening
    /\ pc # "error"
    /\ value # runSelect.value
    /\ \E i \in 1..Len(runSelect.options) : runSelect.options[i] = value
    /\ runSelect' = [runSelect EXCEPT !.value = value]
    /\ IF trainingData = Null
       THEN /\ earlyChange' = "threw"
            /\ UNCHANGED <<trainingData, charts, runSummary, configDetails>>
       ELSE /\ charts' = updateCharts(charts, trainingData, value)
            /\ runSummary' = updateRunSummary(trainingData, value)
            /\ configDetails' = updateConfigDetails(trainingData, value)
            /\ trainingData' =
                  [trainingData EXCEPT !.runs =
                      [i \in 1..Len(trainingData.runs) |->
                          [trainingData.runs[i] EXCEPT !.training_metrics = Reverse(@)]]]
            /\ UNCHANGED earlyChange
    /\ UNCHANGED <<pc, listening, input, mergeCalls>>

\* the user picks another option of #runSelect: its change handler.  With
\* trainingData null, updateRunSummary throws on trainingData.runs (and
\* updateCharts before it, if a chart exists) and the handler ends there
RunSelectChange(value) ==
    /\ listening
    /\ pc # "error"
    /\ value # runSelect.value
    /\ \E i \in 1..Len(runSelect.options) : runSelect.options[i] = value
    /\ runSelect' = [runSelect EXCEPT !.value = value]
    /\ IF trainingData = Null
       THEN /\ earlyChange' = "threw"
            /\ UNCHANGED <<charts, runSummary, configDetails>>
       ELSE /\ charts' = updateCharts(charts, trainingData, value)
            /\ runSummary' = updateRunSummary(trainingData, value)
            /\ configDetails' = updateConfigDetails(trainingData, value)
            /\ UNCHANGED earlyChange
    /\ UNCHANGED <<pc, listening, trainingData, input, mergeCalls>>

\* the user toggles one of the three metric checkboxes: updateCharts.  With
\* trainingData null it throws in the first query it calls, if it calls one
MetricCheckboxChange(box) ==
    /\ listening
    /\ pc # "error"
    /\ IF trainingData = Null
       THEN /\ earlyChange' = IF updateChartsReads(charts) THEN "threw"
                              ELSE IF earlyChange = "none" THEN "skipped"
                              ELSE earlyChange
            /\ UNCHANGED charts
       ELSE /\ charts' = updateCharts(charts, trainingData, runSelect.value)
            /\ UNCHANGED earlyChange
    /\ UNCHANGED <<pc, listening, trainingData, input, mergeCalls, runSelect, runSummary,
                   configDetails>>

\* response.json() resolves with one of the documents data.json may hold
ResponseParsed ==
    /\ pc = "parsing"
    /\ \/ \E n \in 0..MaxFiles : \E names \in PlainNamings(n), row \in StepRows :
             \E owner \in Owners(row, n) : JsonResolved(SampleDocument(names, row, owner))
       \/ \E n \in 0..MaxNamed : \E names \in [1..n -> RunNames] :
             JsonResolved(NamedDocument(names, [f \in 1..n |-> DModel96]))
       \/ \E n \in 0..MaxNamed : \E names \in PlainNamings(n), configs \in [1..n -> Configs] :
             JsonResolved(NamedDocument(names, configs))
       \/ \E train \in TrainingValueLists, eval \in PalomaLists, alone \in BOOLEAN :
             JsonResolved(ValueDocument(train, eval, alone))

Next ==
    \/ DOMContentLoaded
    \/ FetchResolved
    \/ LoadRejected
    \/ ResponseParsed
    \/ \E i \in 1..Len(runSelect.options) : RunSelectChange(runSelect.options[i])
    \/ \E box \in {"showTraining", "showLearningRate", "showEvaluation"} :
          MetricCheckboxChange(box)

Spec == Init /\ [][Next]_vars

(***************************************************************************)
(* Vocabulary of the properties.                                           *)
(***************************************************************************)
\* loadData has run to its end: the merge returned and the page shows the data
Ready == pc = "ready"

Fields == {"training_metrics", "evaluation_results"}
Samples(run, field) ==
    IF field = "training_metrics" THEN run.training_metrics ELSE run.evaluation_results

InputNames == {input[i].run_name : i \in 1..Len(input)}
\* the per-file runs of a name, in input order, and the runs of that name after the merge
InputRuns(name) == SelectSeq(input, LAMBDA r : r.run_name = name)
OutputRuns(name) == SelectSeq(trainingData.runs, LAMBDA r : r.run_name = name)

\* the runs the selector selects
Selected == SelectedRuns(trainingData, runSelect.value)

StepsIn(s) == {s[i].step : i \in 1..Len(s)}
StrictlyIncreasing(s) == \A i \in 1..(Len(s) - 1) : s[i].step < s[i + 1].step
NonDecreasing(s) == \A i \in 1..(Len(s) - 1) : s[i].step <= s[i + 1].step
NoRepeatedStep(s) == \A i, j \in 1..Len(s) : s[i].step = s[j].step => i = j
Occurrences(s, x) == Cardinality({i \in 1..Len(s) : s[i] = x})
\* m holds exactly the elements of s, each as often as s does
Permutation(m, s) ==
    /\ Len(m) = Len(s)
    /\ \A i \in 1..Len(s) : Occurrences(m, s[i]) = Occurrences(s, s[i])

\* C1: after the merge, the training_metrics and the evaluation_results of every
\* run of trainingData.runs, from a group of one file or of several, are strictly
\* increasing in step.
C1_EveryRunStrictlyIncreasing ==
    Ready =>
        \A i \in 1..Len(trainingData.runs) : \A field \in Fields :
            StrictlyIncreasing(Samples(trainingData.runs[i], field))

\* the files of a group that hold a sample of step st, and the first sample of
\* that step in the first of them
FilesWithStep(files, field, st) ==
    {f \in 1..Len(files) : st \in StepsIn(Samples(files[f], field))}
FirstSample(files, field, st) ==
    LET f == CHOOSE g \in FilesWithStep(files, field, st) :
                 \A h \in FilesWithStep(files, field, st) : g <= h
        s == Samples(files[f], field)
    IN  s[CHOOSE i \in 1..Len(s) : s[i].step = st /\ \A j \in 1..(i - 1) : s[j].step # st]

\* C2: when several per-file runs of one run_name hold a sample of the same step,
\* the merged run holds exactly one sample of that step, and it is the sample of
\* the file that comes first in input order.
C2_FirstFileWins ==
    Ready =>
        \A name \in InputNames : \A field \in Fields :
            LET files == InputRuns(name)
            IN  \A st \in UNION {StepsIn(Samples(files[f], field)) : f \in 1..Len(files)} :
                    Cardinality(FilesWithStep(files, field, st)) >= 2 =>
                        /\ Len(OutputRuns(name)) = 1
                        /\ LET m == Samples(OutputRuns(name)[1], field)
                           IN  /\ Cardinality({i \in 1..Len(m) : m[i].step = st}) = 1
                               /\ \A i \in 1..Len(m) :
                                     m[i].step = st => m[i] = FirstSample(files, field, st)

\* a step shared by two files of one name has been merged
C2_Witness ==
    /\ Ready
    /\ \E name \in InputNames : \E st \in Steps :
          /\ Cardinality(FilesWithStep(InputRuns(name), "training_metrics", st)) >= 2
          /\ Len(OutputRuns(name)[1].training_metrics) >= 2

\* the step ranges of a and b do not overlap: one list ends before the other begins
NonOverlapping(a, b) ==
    \/ \A i \in 1..Len(a) : \A j \in 1..Len(b) : a[i].step < b[j].step
    \/ \A i \in 1..Len(a) : \A j \in 1..Len(b) : b[j].step < a[i].step

\* the merged training_metrics of a group of two files is their concatenation
\* sorted by step, nothing dropped
SortedConcatenation(name) ==
    LET files == InputRuns(name)
    IN  /\ Len(OutputRuns(name)) = 1
        /\ LET m == OutputRuns(name)[1].training_metrics
               c == files[1].training_metrics \o files[2].training_metrics
           IN  /\ Len(m) = Len(files[1].training_metrics) + Len(files[2].training_metrics)
               /\ Permutation(m, c)
               /\ NonDecreasing(m)

\* C3, as stated: two per-file runs of one run_name with non-overlapping step
\* ranges merge into the sorted concatenation, of length the sum of the lengths.
C3_DisjointRangesKeepEverySample ==
    Ready =>
        \A name \in InputNames :
            LET files == InputRuns(name)
            IN  (/\ Len(files) = 2
                 /\ NonOverlapping(files[1].training_metrics, files[2].training_metrics))
                    => SortedConcatenation(name)

\* C3, amended: the same, for files that do not repeat a step within themselves.
C3_DisjointRangesWithoutRepeats ==
    Ready =>
        \A name \in InputNames :
            LET files == InputRuns(name)
            IN  (/\ Len(files) = 2
                 /\ NonOverlapping(files[1].training_metrics, files[2].training_metrics)
                 /\ NoRepeatedStep(files[1].training_metrics)
                 /\ NoRepeatedStep(files[2].training_metrics))
                    => SortedConcatenation(name)

\* two files with non-overlapping ranges, the later range first in the input and
\* the other file out of order, have been merged
C3_Witness ==
    /\ Ready
    /\ \E name \in InputNames :
          LET files == InputRuns(name)
          IN  /\ Len(files) = 2
              /\ Len(files[1].training_metrics) = 1
              /\ Len(files[2].training_metrics) = 2
              /\ NoRepeatedStep(files[2].training_metrics)
              /\ ~NonDecreasing(files[2].training_metrics)
              /\ \A j \in 1..2 :
                    files[2].training_metrics[j].step < files[1].training_metrics[1].step
              /\ Len(OutputRuns(name)[1].training_metrics) = 3

NonEmptyConfig(run) == run.config.defined /\ run.config.entries # <<>>

\* C4: the config of a run merged from several files is the config of the first
\* file, in input order, whose config is not empty.
C4_FirstNonEmptyConfig ==
    Ready =>
        \A name \in InputNames :
            LET files == InputRuns(name)
                full == {f \in 1..Len(files) : NonEmptyConfig(files[f])}
            IN  (Len(files) >= 2 /\ full # {}) =>
                    /\ Len(OutputRuns(name)) = 1
                    /\ OutputRuns(name)[1].config =
                          files[CHOOSE f \in full : \A g \in full : f <= g].config

\* the datasets of chart name that carry a label
Datasets(name) == charts[name][1].datasets
Labelled(name, label) == SelectSeq(Datasets(name), LAMBDA d : d.label = label)

\* the greatest of a non-empty list of finite numbers
Greatest(xs) ==
    xs[CHOOSE i \in 1..Len(xs) : \A j \in 1..Len(xs) : ~JsLess(xs[i], xs[j])]

\* learning_rate * max(loss) / max(learning_rate), for max(learning_rate) # 0
ScaledLearningRate(run, i) ==
    LET lr == run.training_metrics[i].learning_rate
        maxLoss == Greatest(Losses(run))
        maxLR == Greatest(LearningRates(run))
    IN  Rat(lr.n * maxLoss.n * maxLR.d, lr.d * maxLoss.d * maxLR.n)

\* C5: in the combined chart, a selected run whose greatest learning_rate is 0 has
\* no scaled learning-rate series, only its loss series; every other selected run
\* with samples has the series (step, learning_rate * max(loss) / max(learning_rate)).
C5_ZeroLearningRateOmitsScaledSeries ==
    Ready =>
        \A k \in 1..Len(Selected) :
            LET run == Selected[k]
                scaled == Labelled("combined", <<run.run_name, " - LR (scaled)">>)
            IN  Len(run.training_metrics) > 0 =>
                    /\ Len(Labelled("combined", <<run.run_name, " - Loss">>)) = 1
                    /\ IF Greatest(LearningRates(run)) = Fin(0)
                       THEN scaled = <<>>
                       ELSE /\ Len(scaled) = 1
                            /\ Len(scaled[1].data) = Len(run.training_metrics)
                            /\ \A i \in 1..Len(run.training_metrics) :
                                  scaled[1].data[i] =
                                      [x |-> run.training_metrics[i].step,
                                       y |-> ScaledLearningRate(run, i)]

\* C6: an evaluation sample whose value is not finite is in the 'eval' series of
\* its run with its value unchanged, and when it is the last evaluation sample of
\* the run, the run's summary card shows the infinity sign as final score.
C6_NonFiniteEvaluationKept ==
    Ready =>
        \A k \in 1..Len(Selected) :
            LET run == Selected[k]
                er == run.evaluation_results
                series == Labelled("eval", <<run.run_name>>)
            IN  (\E i \in 1..Len(er) : ~isFinite(er[i].paloma)) =>
                    /\ Len(series) = 1
                    /\ Len(series[1].data) = Len(er)
                    /\ \A i \in 1..Len(er) :
                          ~isFinite(er[i].paloma) =>
                              series[1].data[i] = [x |-> er[i].step, y |-> er[i].paloma]
                    /\ ~isFinite(er[Len(er)].paloma) =>
                          runSummary[k].finalPaloma = InfinityMarker

\* a run whose last of two evaluation samples is infinite is selected by its index
C6_Witness ==
    /\ Ready
    /\ runSelect.value = RunOption(0)
    /\ Len(Selected[1].evaluation_results) = 2
    /\ Selected[1].evaluation_results[1].paloma = Fin(1235)
    /\ Selected[1].evaluation_results[2].paloma = Infinity
    /\ runSummary[1].finalPaloma = InfinityMarker

MetricTypes == {"loss", "lr", "eval"}
FamilySamples(run, metricType) ==
    IF metricType = "eval" THEN run.evaluation_results ELSE run.training_metrics
FamilyValue(sample, metricType) ==
    CASE metricType = "loss" -> sample.loss
      [] metricType = "lr" -> sample.learning_rate
      [] metricType = "eval" -> sample.paloma

\* dataset d is the series of run: its label, and its samples in stored order
\* mapped one to one to (step, value)
SeriesOf(d, run, metricType) ==
    LET s == FamilySamples(run, metricType)
    IN  /\ d.label = <<run.run_name>>
        /\ Len(d.data) = Len(s)
        /\ \A i \in 1..Len(s) :
              d.data[i] = [x |-> s[i].step, y |-> FamilyValue(s[i], metricType)]

\* C7, as stated: each chart holds exactly one series per selected run, the run's
\* samples in stored order mapped one to one to (step, value).
C7_OneSeriesPerSelectedRun ==
    Ready =>
        \A metricType \in MetricTypes :
            /\ Len(Datasets(metricType)) = Len(Selected)
            /\ \A k \in 1..Len(Selected) :
                  SeriesOf(Datasets(metricType)[k], Selected[k], metricType)

\* C7, amended: each chart holds exactly one series per selected run that has at
\* least one sample of the metric family, in the order of the runs, and none for a
\* run that has no such sample.
C7_OneSeriesPerSelectedRunWithSamples ==
    Ready =>
        \A metricType \in MetricTypes :
            LET with == SelectSeq(Selected,
                                  LAMBDA r : Len(FamilySamples(r, metricType)) > 0)
            IN  /\ Len(Datasets(metricType)) = Len(with)
                /\ \A k \in 1..Len(with) :
                      SeriesOf(Datasets(metricType)[k], with[k], metricType)

\* all runs are selected; the first has no evaluation sample, the second has two
C7_Witness ==
    /\ Ready
    /\ runSelect.value = AllRuns
    /\ Len(Selected) = 2
    /\ Len(Selected[1].evaluation_results) = 0
    /\ Len(Selected[2].evaluation_results) = 2
    /\ Len(Datasets("eval")) = 1
    /\ Len(Datasets("eval")[1].data) = 2

\* C8: once the data is loaded and merged, no step (a selection change or a chart
\* update, with the queries they run) changes trainingData.
C8_QueriesLeaveSnapshot == [][Ready => trainingData' = trainingData]_vars

\* a run merged from two files is selected by its index
C8_Witness ==
    /\ Ready
    /\ runSelect.value.kind = "index"
    /\ "log_files" \in DOMAIN Selected[1]
    /\ Len(Selected[1].training_metrics) >= 2
    /\ Len(runSummary) = 1

\* C9: after loading and merging, summary.total_runs is the number of runs and
\* summary.run_names lists the names of the runs in their order.
C9_SummaryMatchesRuns ==
    Ready =>
        /\ trainingData.summary.total_runs = Len(trainingData.runs)
        /\ trainingData.summary.run_names =
              [i \in 1..Len(trainingData.runs) |-> trainingData.runs[i].run_name]

\* C10: after mergeContinuationLogs, every run_name of the input is on exactly one
\* run of trainingData.runs, and a name with a single input file is on that very run.
C10_EveryNameOnOneRun ==
    mergeCalls # "none" =>
        \A name \in InputNames :
            /\ Len(OutputRuns(name)) = 1
            /\ Len(InputRuns(name)) = 1 => OutputRuns(name)[1] = InputRuns(name)[1]

\* what the page has built from the snapshot
Built ==
    \/ Len(runSelect.options) > 1
    \/ charts # NoCharts
    \/ runSummary # <<>>
    \/ configDetails # <<>>

\* the per-file runs of the parsed response after grouping and merging
MergedInput == MergedRuns(ObjectEntries(GroupRuns(input, <<>>)))

\* C11: the merge is called only once the whole response has been parsed, and
\* the selector options, the chart series, the summary cards and the
\* configuration table exist only after the merge has returned and are the
\* ones of the merged runs, never of the per-file runs
C11_BuiltFromMergedRuns ==
    /\ mergeCalls # "none" => /\ pc \in {"ready", "error"}
                              /\ trainingData # Null
    /\ mergeCalls # "returned" => ~Built
    /\ mergeCalls = "returned" =>
          /\ trainingData.runs = MergedInput
          /\ runSelect.options = populateRunSelector(trainingData)
          /\ Len(runSelect.options) = 1 + Len(MergedInput)
          /\ charts = createCharts(trainingData, runSelect.value)
          /\ runSummary = updateRunSummary(trainingData, runSelect.value)
          /\ configDetails = updateConfigDetails(trainingData, runSelect.value)

\* the page shows a snapshot in which two files were merged into one run
C11_Witness ==
    /\ Ready
    /\ Len(input) = 2
    /\ Len(trainingData.runs) = 1
    /\ Len(runSelect.options) = 2
    /\ Len(Datasets("loss")) = 1
    /\ Len(Datasets("loss")[1].data) = 2
    /\ Len(runSummary) = 1

C13_MergeIdempotent ==
    mergeCalls # "none" =>
        LET again == mergeContinuationLogs(trainingData)
        IN  /\ again.threw = (mergeCalls = "threw")
            /\ again.data = trainingData

\* the merge turned three per-file runs into a merged run and a single-file run
C13_Witness ==
    /\ mergeCalls = "returned"
    /\ Len(input) = 3
    /\ Len(trainingData.runs) = 2
    /\ \E i \in 1..2 : "log_files" \in DOMAIN trainingData.runs[i]
    /\ \E i \in 1..2 : "log_file" \in DOMAIN trainingData.runs[i]

====
